---- MODULE Spec2Model ----
(***************************************************************************)
(* Model of server.py: the TTL cache (class Cache), the process-wide       *)
(* gist_cache and the request handlers that use it.                        *)
(*                                                                         *)
(* Spec        the server as shipped: HTTPServer handles one request at a  *)
(*             time, so every cache operation and every handler runs to    *)
(*             completion before the next one starts; the clock advances   *)
(*             between them.                                               *)
(* SpecThreads the same Cache object called by two concurrent units of     *)
(*             execution, interleaved at the points where CPython can      *)
(*             switch threads (calls and loop back-edges).  Cache takes no *)
(*             lock, so the steps of two operations interleave freely.     *)
(* SpecPure    get_pagination_params and the cache key, applied once to    *)
(*             query strings and identities drawn from bounded sets.       *)
(* SpecServer  do_GET, /cache/stats and /cache/clear on the shipped        *)
(*             single-threaded server, with every outcome of the upstream  *)
(*             call and a clock that moves during the call.                *)
(* SpecRequests do_GET run by two concurrent units; a response dict is an  *)
(*             object on a heap, so the reference the cache holds and the  *)
(*             one a handler holds are the same object.                    *)
(***************************************************************************)
EXTENDS Integers, FiniteSets, Sequences, TLC

\* ------------------------------------------------------------------ bounds
Keys == {"k1", "k2"}
Data == {"d1", "d2"}
\* a cached value: the response dict; only its cache.hit flag is ever mutated
Values == [data : Data, hit : BOOLEAN]
\* Python's None
None == [none |-> TRUE]
\* an operation that ended by raising
KeyError == [raised |-> "KeyError"]
RuntimeError == [raised |-> "RuntimeError"]

\* gist_cache = Cache(ttl_seconds=300)
DefaultTTL == 300
\* the clock advances in steps of half the default TTL, so that ages below,
\* equal to and above the TTL all occur
TimeStep == DefaultTTL \div 2
MaxTicks == 3
MaxTime == MaxTicks * TimeStep
\* Cache.__init__ takes any ttl_seconds: negative, zero and the default
TTLs == {0 - TimeStep, 0, DefaultTTL}

NoTime == 0 - 1

\* the concurrent units of execution that share gist_cache
Threads == {"t1", "t2"}

VARIABLES
    cache,   \* self.cache : key -> [value, timestamp], a partial function
    ttl,     \* self.ttl
    now,     \* time.time()
    ret,     \* the last completed operation and what it returned
    pre,     \* history: self.cache as it was when that operation started
    log,     \* history: per key, the last set not followed by remove/clear
    lazy,    \* history: per key, the time of the get that found it expired
    pc,      \* per unit of execution: where it stands in a Cache method
    loc,     \* per unit of execution: the locals of that method
    heap     \* the response dicts built by concurrent requests, by identity

vars == <<cache, ttl, now, ret, pre, log, lazy, pc, loc, heap>>
hist == <<ret, pre>>
thr == <<pc, loc>>

\* ----------------------------------------------------------- dict helpers
EmptyCache == [k \in {} |-> None]
len(c) == Cardinality(DOMAIN c)
Del(c, key) == [j \in DOMAIN c \ {key} |-> c[j]]
Put(c, key, e) == [j \in DOMAIN c \cup {key} |-> IF j = key THEN e ELSE c[j]]

\* ------------------------------------------------------------ class Cache
\* Every method is an operator from (dict, arguments, clock) to the new dict
\* and the returned value.

\* mutant: the expiry test accepts an entry whose age equals the TTL
get_le(c, key, t) ==
    IF key \in DOMAIN c
    THEN IF t - c[key].timestamp <= ttl
         THEN [cache |-> c, result |-> c[key].value]
         ELSE [cache |-> Del(c, key), result |-> None]
    ELSE [cache |-> c, result |-> None]

\* mutant: an expired entry is reported absent but left in the dict
get_nodel(c, key, t) ==
    IF key \in DOMAIN c /\ t - c[key].timestamp < ttl
    THEN [cache |-> c, result |-> c[key].value]
    ELSE [cache |-> c, result |-> None]

\* mutant: a miss leaves a placeholder entry behind (a defaulting dict)
get_default(c, key, t) ==
    IF key \in DOMAIN c
    THEN IF t - c[key].timestamp < ttl
         THEN [cache |-> c, result |-> c[key].value]
         ELSE [cache |-> Del(c, key), result |-> None]
    ELSE [cache |-> Put(c, key, [value |-> None, timestamp |-> t]), result |-> None]

get(c, key, t) ==
    IF key \in DOMAIN c
    THEN IF t - c[key].timestamp < ttl
         THEN [cache |-> c, result |-> c[key].value]
         ELSE [cache |-> Del(c, key), result |-> None]
    ELSE [cache |-> c, result |-> None]

\* mutant: an existing entry is kept (dict.setdefault instead of assignment)
set_keep(c, key, value, t) ==
    IF key \in DOMAIN c
    THEN [cache |-> c, result |-> None]
    ELSE [cache |-> Put(c, key, [value |-> value, timestamp |-> t]), result |-> None]

\* mutant: an overwrite replaces the value and keeps the entry's timestamp
set_keep_ts(c, key, value, t) ==
    [cache |-> Put(c, key, [value |-> value,
                            timestamp |-> IF key \in DOMAIN c
                                          THEN c[key].timestamp ELSE t]),
     result |-> None]

\* mutant: the insert evicts every other entry (a cache of size one)
set_evict(c, key, value, t) ==
    [cache |-> [j \in {key} |-> [value |-> value, timestamp |-> t]], result |-> None]

set(c, key, value, t) ==
    [cache |-> Put(c, key, [value |-> value, timestamp |-> t]), result |-> None]

clear(c) ==
    [cache |-> EmptyCache, result |-> None]

\* mutant: del without the membership test raises on an absent key
remove_noguard(c, key) ==
    IF key \in DOMAIN c
    THEN [cache |-> Del(c, key), result |-> None]
    ELSE [cache |-> c, result |-> KeyError]

remove(c, key) ==
    IF key \in DOMAIN c
    THEN [cache |-> Del(c, key), result |-> None]
    ELSE [cache |-> c, result |-> None]

\* mutant: the statistics sweep expired entries out of the dict
get_stats_purge(c, t) ==
    LET keep == {k \in DOMAIN c : t - c[k].timestamp < ttl}
    IN  [cache |-> [k \in keep |-> c[k]],
         result |-> [total_entries |-> len(c),
                     valid_entries |-> Cardinality(keep),
                     expired_entries |-> len(c) - Cardinality(keep),
                     ttl_seconds |-> ttl]]

\* mutant: the TTL is reported in milliseconds
get_stats_ms(c, t) ==
    LET valid_entries == Cardinality({k \in DOMAIN c : t - c[k].timestamp < ttl})
    IN  [cache |-> c,
         result |-> [total_entries |-> len(c),
                     valid_entries |-> valid_entries,
                     expired_entries |-> len(c) - valid_entries,
                     ttl_seconds |-> ttl * 1000]]

get_stats(c, t) ==
    LET current_time == t
        valid_entries ==
            Cardinality({k \in DOMAIN c : current_time - c[k].timestamp < ttl})
    IN  [cache |-> c,
         result |-> [total_entries |-> len(c),
                     valid_entries |-> valid_entries,
                     expired_entries |-> len(c) - valid_entries,
                     ttl_seconds |-> ttl]]

\* mutant: the count is taken after the dict was cleared
handle_cache_clear_late(c) ==
    [cache |-> clear(c).cache,
     result |-> [message |-> "Cache cleared successfully",
                 entries_removed |-> len(clear(c).cache)]]

\* GistHandler.handle_cache_clear: entries_before, then clear()
handle_cache_clear(c) ==
    LET entries_before == len(c)
    IN  [cache |-> clear(c).cache,
         result |-> [message |-> "Cache cleared successfully",
                     entries_removed |-> entries_before]]

\* ------------------------------------------------------------------ state
\* the locals of a unit that is not inside a Cache method
Idle ==
    [op |-> "-", key |-> "-", value |-> None, timestamp |-> 0, time |-> 0,
     used |-> 0, n |-> 0, seen |-> {}, dirty |-> FALSE, valid |-> 0,
     total |-> 0, result |-> None]

NoLog == [k \in Keys |-> None]
NoLazy == [k \in Keys |-> NoTime]

Init ==
    /\ cache = EmptyCache
    /\ ttl \in TTLs
    /\ now = 0
    /\ ret = [op |-> "init", key |-> "-", result |-> None, time |-> 0]
    /\ pre = EmptyCache
    /\ log = NoLog
    /\ lazy = NoLazy
    /\ pc = [t \in Threads |-> "idle"]
    /\ loc = [t \in Threads |-> Idle]
    /\ heap = <<>>

Done(op, key, r) ==
    /\ cache' = r.cache
    /\ ret' = [op |-> op, key |-> key, result |-> r.result, time |-> now]
    /\ pre' = cache

\* the clock moves on between operations
Tick ==
    /\ now < MaxTime
    /\ now' = now + TimeStep
    /\ UNCHANGED <<cache, ttl, heap, ret, pre, log, lazy, thr>>

Get(k) ==
    /\ Done("get", k, get(cache, k, now))
    /\ lazy' = IF log[k] # None /\ lazy[k] = NoTime /\ now - log[k].time >= ttl
               THEN [lazy EXCEPT ![k] = now]
               ELSE lazy
    /\ UNCHANGED <<ttl, heap, now, log, thr>>

Set(k, v) ==
    /\ Done("set", k, set(cache, k, v, now))
    /\ log' = [log EXCEPT ![k] = [value |-> v, time |-> now]]
    /\ lazy' = [lazy EXCEPT ![k] = NoTime]
    /\ UNCHANGED <<ttl, heap, now, thr>>

Remove(k) ==
    /\ Done("remove", k, remove(cache, k))
    /\ log' = [log EXCEPT ![k] = None]
    /\ lazy' = [lazy EXCEPT ![k] = NoTime]
    /\ UNCHANGED <<ttl, heap, now, thr>>

Clear ==
    /\ Done("clear", "-", clear(cache))
    /\ log' = NoLog
    /\ lazy' = NoLazy
    /\ UNCHANGED <<ttl, heap, now, thr>>

GetStats ==
    /\ Done("stats", "-", get_stats(cache, now))
    /\ UNCHANGED <<ttl, heap, now, log, lazy, thr>>

HandleCacheClear ==
    /\ Done("cache_clear", "-", handle_cache_clear(cache))
    /\ log' = NoLog
    /\ lazy' = NoLazy
    /\ UNCHANGED <<ttl, heap, now, thr>>

Next ==
    \/ Tick
    \/ \E k \in Keys : Get(k)
    \/ \E k \in Keys, v \in Values : Set(k, v)
    \/ \E k \in Keys : Remove(k)
    \/ Clear
    \/ GetStats
    \/ HandleCacheClear

Spec == Init /\ [][Next]_vars

\* ------------------------------------------------ request parsing (pure)
\* Strings are sequences of one-character strings.
ValueError == [ok |-> FALSE, value |-> 0]
DigitChars == <<"0", "1", "2", "3", "4", "5", "6", "7", "8", "9">>
IsDigit(ch) == \E i \in 1..10 : DigitChars[i] = ch
DigitValue(ch) == (CHOOSE i \in 1..10 : DigitChars[i] = ch) - 1

RECURSIVE digits_value(_)
digits_value(s) ==
    IF s = <<>> THEN 0
    ELSE 10 * digits_value(SubSeq(s, 1, Len(s) - 1)) + DigitValue(s[Len(s)])

\* int(s) for a query-string value: an optional minus sign and decimal digits,
\* anything else raises ValueError
int(s) ==
    LET body == IF s # <<>> /\ s[1] = "-" THEN Tail(s) ELSE s
    IN  IF body # <<>> /\ \A i \in 1..Len(body) : IsDigit(body[i])
        THEN [ok |-> TRUE,
              value |-> IF s[1] = "-" THEN 0 - digits_value(body)
                        ELSE digits_value(body)]
        ELSE ValueError

\* str(n), as an f-string formats an int
RECURSIVE str(_)
str(n) ==
    IF n < 0 THEN <<"-">> \o str(0 - n)
    ELSE IF n < 10 THEN <<DigitChars[n + 1]>>
    ELSE str(n \div 10) \o <<DigitChars[(n % 10) + 1]>>

min(a, b) == IF a < b THEN a ELSE b
max(a, b) == IF a > b THEN a ELSE b

\* mutant: only the upper limit is enforced
get_pagination_params_upper(params) ==
    LET page == int(IF "page" \in DOMAIN params THEN params["page"] ELSE <<"1">>)
        per_page == int(IF "per_page" \in DOMAIN params
                        THEN params["per_page"] ELSE <<"3", "0">>)
    IN  IF ~page.ok \/ ~per_page.ok
        THEN <<1, 30>>
        ELSE <<min(page.value, 100), min(per_page.value, 100)>>

\* GistHandler.get_pagination_params: params maps the names present in the
\* query string to their values
get_pagination_params(params) ==
    LET page == int(IF "page" \in DOMAIN params THEN params["page"] ELSE <<"1">>)
        per_page == int(IF "per_page" \in DOMAIN params
                        THEN params["per_page"] ELSE <<"3", "0">>)
    IN  IF ~page.ok \/ ~per_page.ok
        THEN <<1, 30>>
        ELSE <<max(1, min(page.value, 100)), max(1, min(per_page.value, 100))>>

\* mutant: the key leaves out per_page
cache_key_page(username, page, per_page) ==
    username \o <<":", "p", "a", "g", "e">> \o str(page)

\* cache_key = f"{username}:page{page}:per_page{per_page}"
cache_key(username, page, per_page) ==
    username \o <<":", "p", "a", "g", "e">> \o str(page)
             \o <<":", "p", "e", "r", "_", "p", "a", "g", "e">> \o str(per_page)

\* the strings of 1 to n pieces drawn from S
RECURSIVE Concats(_, _)
Concats(S, n) ==
    IF n = 0 THEN {<<>>}
    ELSE LET shorter == Concats(S, n - 1)
         IN  shorter \cup {x \o y : x \in shorter, y \in S}

\* identities the path can carry, built from pieces that look like the key's
\* own separators and numbers
MaxFrags == 2
Frags == {<<"a">>, <<"1">>, <<":", "p", "a", "g", "e", "1">>,
          <<":", "p", "e", "r", "_", "p", "a", "g", "e", "1">>}
Usernames == Concats(Frags, MaxFrags) \ {<<>>}
\* page and per_page after validation
KeyPages == {1, 11}

\* query-string values: digits, a sign, a letter
MaxParamLen == 3
ParamChars == {<<"0">>, <<"1">>, <<"9">>, <<"-">>, <<"x">>}
ParamValues == Concats(ParamChars, MaxParamLen) \ {<<>>}
\* the query strings: each of page and per_page present or not
Queries ==
    {[n \in {} |-> <<>>]}
        \cup {[n \in {"page"} |-> v] : v \in ParamValues}
        \cup {[n \in {"per_page"} |-> v] : v \in ParamValues}
        \cup {[n \in {"page", "per_page"} |-> IF n = "page" THEN v[1] ELSE v[2]] :
                  v \in ParamValues \X ParamValues}

Untouched == UNCHANGED <<cache, ttl, heap, now, pre, log, lazy, thr>>

\* do_GET, lines 145-146, for one query string
Paginate ==
    /\ ret.op = "init"
    /\ \E params \in Queries :
          ret' = [op |-> "pagination", key |-> "-", params |-> params,
                  result |-> get_pagination_params(params), time |-> 0]
    /\ Untouched

\* do_GET, line 152, for two requests
BuildKeys ==
    /\ ret.op = "init"
    /\ \E u1 \in Usernames, u2 \in Usernames, p1 \in KeyPages, p2 \in KeyPages,
          q1 \in KeyPages, q2 \in KeyPages :
          ret' = [op |-> "cache_key", key |-> "-",
                  a |-> <<u1, p1, q1>>, b |-> <<u2, p2, q2>>,
                  result |-> <<cache_key(u1, p1, q1), cache_key(u2, p2, q2)>>,
                  time |-> 0]
    /\ Untouched

NextPure ==
    \/ Paginate
    \/ BuildKeys

\* each behaviour applies one function to one input
InitPure == Init /\ ttl = DefaultTTL

SpecPure == InitPure /\ [][NextPure]_vars

\* ------------------------------------------------ request handlers (serial)
\* What the upstream call of fetch_gists_from_github ends with: the gists, an
\* urllib HTTPError with its status code, or any other exception.
Fetched(d) == [kind |-> "ok", data |-> d, code |-> 200]
HTTPError(code) == [kind |-> "HTTPError", data |-> "-", code |-> code]
OtherException == [kind |-> "Exception", data |-> "-", code |-> 0]
Upstreams ==
    {Fetched(d) : d \in Data} \cup {HTTPError(404), HTTPError(403)}
        \cup {OtherException}

\* what the handler sends: status line, X-Cache-Status header, JSON body, and
\* the number of upstream calls and of cache stores it made on the way
Response(status, x_cache, body, fetches, sets) ==
    [status |-> status, x_cache |-> x_cache, body |-> body,
     fetches |-> fetches, sets |-> sets]

\* mutant: the bypass flag is ignored
lookup_always(c, key, bypass_cache, t) ==
    get(c, key, t)

\* do_GET, lines 155-156: the cache is asked unless the request bypasses it
lookup(c, key, bypass_cache, t) ==
    IF bypass_cache THEN [cache |-> c, result |-> None] ELSE get(c, key, t)

\* mutant: the hit flag is set on a copy of the cached dict
send_cached_response_copy(c, key) ==
    [cache |-> c,
     result |-> Response(200, "HIT", [c[key].value EXCEPT !.hit = TRUE], 0, 0)]

\* send_cached_response: cached_data is the dict the cache holds, so setting
\* its hit flag changes the stored value
send_cached_response(c, key) ==
    LET cached_data == [c[key].value EXCEPT !.hit = TRUE]
    IN  [cache |-> [c EXCEPT ![key].value = cached_data],
         result |-> Response(200, "HIT", cached_data, 0, 0)]

\* mutant: the response is sent without being stored
fetched_nostore(c, key, upstream, t) ==
    [cache |-> c,
     result |-> Response(200, "MISS", [data |-> upstream.data, hit |-> FALSE], 1, 0)]

\* do_GET, lines 163-198: the upstream call succeeded
fetched(c, key, upstream, t) ==
    LET response_data == [data |-> upstream.data, hit |-> FALSE]
    IN  [cache |-> set(c, key, response_data, t).cache,
         result |-> Response(200, "MISS", response_data, 1, 1)]

\* mutant: a failed call is tried once more before the error is sent
fetch_failed_retry(c, key, upstream) ==
    [cache |-> c,
     result |-> Response(IF upstream.kind = "HTTPError" THEN upstream.code ELSE 500,
                         "-", [error |-> upstream.kind], 2, 0)]

\* do_GET, lines 200-203, with handle_http_error and handle_server_error
fetch_failed(c, key, upstream) ==
    IF upstream.kind = "HTTPError"
    THEN IF upstream.code = 404
         THEN [cache |-> c,
               result |-> Response(404, "-", [error |-> "not found"], 1, 0)]
         ELSE [cache |-> c,
               result |-> Response(upstream.code, "-", [error |-> "GitHub API error"], 1, 0)]
    ELSE [cache |-> c,
          result |-> Response(500, "-", [error |-> "Server error"], 1, 0)]

\* GistHandler.do_GET for a gists path: t0 is the clock at the lookup, t1 the
\* clock when the upstream call has returned
do_GET(c, key, bypass_cache, upstream, t0, t1) ==
    LET looked == lookup(c, key, bypass_cache, t0)
    IN  IF looked.result # None
        THEN send_cached_response(looked.cache, key)
        ELSE IF upstream.kind = "ok"
             THEN fetched(looked.cache, key, upstream, t1)
             ELSE fetch_failed(looked.cache, key, upstream)

\* history: a value was stored for k less than ttl ago and has not been
\* removed, cleared or dropped on expiry since
Fresh(k) == log[k] # None /\ lazy[k] = NoTime /\ now - log[k].time < ttl

\* one request for a gists path; the upstream call takes delay
DoGET(k, bypass, upstream, delay) ==
    LET r == do_GET(cache, k, bypass, upstream, now, now + delay)
        fetching == bypass \/ ~Fresh(k)
        storing == fetching /\ upstream.kind = "ok"
        end == IF fetching THEN now + delay ELSE now
    IN  /\ now + delay <= MaxTime
        /\ fetching \/ delay = 0
        /\ cache' = r.cache
        /\ pre' = cache
        /\ now' = end
        /\ ret' = [op |-> "do_GET", key |-> k, result |-> r.result, time |-> now,
                   bypass |-> bypass, upstream |-> upstream, fresh |-> Fresh(k),
                   end |-> end]
        /\ log' = IF storing
                  THEN [log EXCEPT ![k] = [value |-> [data |-> upstream.data,
                                                      hit |-> FALSE],
                                           time |-> end, served |-> FALSE]]
                  ELSE IF ~fetching
                       THEN [log EXCEPT ![k].served = TRUE]
                       ELSE log
        /\ lazy' = IF storing
                   THEN [lazy EXCEPT ![k] = NoTime]
                   ELSE IF fetching /\ ~bypass /\ log[k] # None /\ lazy[k] = NoTime
                        THEN [lazy EXCEPT ![k] = now]
                        ELSE lazy
        /\ UNCHANGED <<ttl, heap, thr>>

\* the process-wide cache: gist_cache = Cache(ttl_seconds=300)
InitServer == Init /\ ttl = DefaultTTL

\* HTTPServer.serve_forever: one request at a time, each handled to its end
NextServer ==
    \/ Tick
    \/ \E k \in Keys, bypass \in BOOLEAN, upstream \in Upstreams,
          delay \in {0, TimeStep} : DoGET(k, bypass, upstream, delay)
    \/ GetStats
    \/ HandleCacheClear

SpecServer == InitServer /\ [][NextServer]_vars

\* ------------------------------------------- concurrent units, no lock
\* Two units of execution call the methods of the one Cache object.  A method
\* is cut where CPython can hand the interpreter to another thread: after a
\* call returns (time.time(), len()) and at every turn of the generator loop
\* in get_stats.  The membership test and the subscript or del that follows it
\* (lines 27-28, 46-47) are taken in one step.

\* v1 and v2: the value each unit stores (response_data is built with hit False)
ValueOf(t) == [data |-> IF t = "t1" THEN "d1" ELSE "d2", hit |-> FALSE]

\* a dict whose keys change under a live values() iterator: the iterators of
\* the other units are marked, and their next step depends on the build
Others(t, structural) ==
    [u \in Threads |->
        IF u # t /\ structural /\ pc[u] = "stats_next"
        THEN [loc[u] EXCEPT !.dirty = TRUE]
        ELSE loc[u]]

\* unit t moves to label with locals l
Step(t, label, l, structural) ==
    /\ pc' = [pc EXCEPT ![t] = label]
    /\ loc' = [Others(t, structural) EXCEPT ![t] = l]

Returned(op, key, result) ==
    [Idle EXCEPT !.op = op, !.key = key, !.result = result]

\* the shared cache is the process-wide gist_cache = Cache(ttl_seconds=300)
InitThreads == Init /\ ttl = DefaultTTL

\* get, lines 27-29: membership, the entry read, and the call of time.time()
TGetLookup(t, k) ==
    /\ pc[t] = "idle"
    /\ IF k \in DOMAIN cache
       THEN Step(t, "get_cmp",
                 [Idle EXCEPT !.op = "get", !.key = k,
                              !.value = cache[k].value,
                              !.timestamp = cache[k].timestamp,
                              !.time = now], FALSE)
       ELSE Step(t, "done", Returned("get", k, None), FALSE)
    /\ UNCHANGED <<cache, ttl, heap, now, hist, log, lazy>>

\* get, lines 29-34: the comparison, then return value, or del and return None
TGetExpire(t) ==
    /\ pc[t] = "get_cmp"
    /\ LET l == loc[t]
       IN  IF l.time - l.timestamp < ttl
           THEN /\ Step(t, "done", Returned("get", l.key, l.value), FALSE)
                /\ UNCHANGED <<cache, lazy>>
           ELSE IF l.key \in DOMAIN cache
                THEN /\ cache' = Del(cache, l.key)
                     /\ lazy' = [lazy EXCEPT ![l.key] = l.time]
                     /\ Step(t, "done", Returned("get", l.key, None), TRUE)
                ELSE /\ Step(t, "done", Returned("get", l.key, KeyError), FALSE)
                     /\ UNCHANGED <<cache, lazy>>
    /\ UNCHANGED <<ttl, heap, now, hist, log>>

\* set, line 38: the call of time.time()
TSetTime(t, k) ==
    /\ pc[t] = "idle"
    /\ Step(t, "set_store",
            [Idle EXCEPT !.op = "set", !.key = k, !.value = ValueOf(t),
                         !.time = now], FALSE)
    /\ UNCHANGED <<cache, ttl, heap, now, hist, log, lazy>>

\* set, line 38: the tuple is built and stored under the key
TSetStore(t) ==
    /\ pc[t] = "set_store"
    /\ LET l == loc[t]
       IN  /\ cache' = set(cache, l.key, l.value, l.time).cache
           /\ log' = [log EXCEPT ![l.key] = [value |-> l.value, time |-> l.time]]
           /\ lazy' = [lazy EXCEPT ![l.key] = NoTime]
           /\ Step(t, "done",
                   [Idle EXCEPT !.op = "set", !.key = l.key, !.value = l.value,
                                !.time = l.time],
                   l.key \notin DOMAIN cache)
    /\ UNCHANGED <<ttl, heap, now, hist>>

\* remove, lines 46-47
TRemove(t, k) ==
    /\ pc[t] = "idle"
    /\ cache' = remove(cache, k).cache
    /\ log' = [log EXCEPT ![k] = None]
    /\ lazy' = [lazy EXCEPT ![k] = NoTime]
    /\ Step(t, "done", Returned("remove", k, remove(cache, k).result),
            k \in DOMAIN cache)
    /\ UNCHANGED <<ttl, heap, now, hist>>

\* clear, line 42
TClear(t) ==
    /\ pc[t] = "idle"
    /\ cache' = clear(cache).cache
    /\ log' = NoLog
    /\ lazy' = NoLazy
    /\ Step(t, "done", Returned("clear", "-", None), cache # EmptyCache)
    /\ UNCHANGED <<ttl, heap, now, hist>>

\* get_stats, line 51: current_time = time.time()
TStatsTime(t) ==
    /\ pc[t] = "idle"
    /\ Step(t, "stats_iter", [Idle EXCEPT !.op = "stats", !.time = now], FALSE)
    /\ UNCHANGED <<cache, ttl, heap, now, hist, log, lazy>>

\* get_stats, line 53: the iterator over self.cache.values() notes the size
TStatsIter(t) ==
    /\ pc[t] = "stats_iter"
    /\ Step(t, "stats_next", [loc[t] EXCEPT !.used = len(cache)], FALSE)
    /\ UNCHANGED <<cache, ttl, heap, now, hist, log, lazy>>

\* the generator counts the entry of key k when it is valid (line 54)
Visit(l, k) ==
    [l EXCEPT !.seen = @ \cup {k},
              !.n = @ + 1,
              !.valid = @ + (IF l.time - cache[k].timestamp < ttl THEN 1 ELSE 0)]

\* the sum is complete: only the count is carried on
Summed(l) == [Idle EXCEPT !.op = "stats", !.valid = l.valid]

\* get_stats, lines 52-55: one turn of the generator.  The iterator raises
\* when the size of the dict differs from the size it noted; over an unchanged
\* dict it yields each entry once; over a dict whose keys changed and whose
\* size is the same it may stop, yield any entry, or raise once it has yielded
\* as many entries as it noted.
TStatsNext(t) ==
    /\ pc[t] = "stats_next"
    /\ LET l == loc[t]
       IN  IF len(cache) # l.used
           THEN Step(t, "done", Returned("stats", "-", RuntimeError), FALSE)
           ELSE IF ~l.dirty
                THEN IF DOMAIN cache \ l.seen # {}
                     THEN \E k \in DOMAIN cache \ l.seen :
                              Step(t, "stats_next", Visit(l, k), FALSE)
                     ELSE Step(t, "stats_len1", Summed(l), FALSE)
                ELSE \/ Step(t, "stats_len1", Summed(l), FALSE)
                     \/ /\ l.n < l.used
                        /\ \E k \in DOMAIN cache :
                              Step(t, "stats_next", Visit(l, k), FALSE)
                     \/ /\ l.n >= l.used
                        /\ cache # EmptyCache
                        /\ Step(t, "done", Returned("stats", "-", RuntimeError), FALSE)
    /\ UNCHANGED <<cache, ttl, heap, now, hist, log, lazy>>

\* get_stats, line 57: 'total_entries': len(self.cache)
TStatsLen1(t) ==
    /\ pc[t] = "stats_len1"
    /\ Step(t, "stats_len2", [loc[t] EXCEPT !.total = len(cache)], FALSE)
    /\ UNCHANGED <<cache, ttl, heap, now, hist, log, lazy>>

\* get_stats, lines 58-61: 'expired_entries': len(self.cache) - valid_entries
TStatsLen2(t) ==
    /\ pc[t] = "stats_len2"
    /\ LET l == loc[t]
       IN  Step(t, "done",
                Returned("stats", "-",
                         [total_entries |-> l.total,
                          valid_entries |-> l.valid,
                          expired_entries |-> len(cache) - l.valid,
                          ttl_seconds |-> ttl]), FALSE)
    /\ UNCHANGED <<cache, ttl, heap, now, hist, log, lazy>>

\* the caller takes the result (or the exception) and is free for the next call
TReturn(t) ==
    /\ pc[t] = "done"
    /\ Step(t, "idle", Idle, FALSE)
    /\ UNCHANGED <<cache, ttl, heap, now, hist, log, lazy>>

NextThreads ==
    \/ Tick
    \/ \E t \in Threads, k \in Keys : TGetLookup(t, k)
    \/ \E t \in Threads : TGetExpire(t)
    \/ \E t \in Threads, k \in Keys : TSetTime(t, k)
    \/ \E t \in Threads : TSetStore(t)
    \/ \E t \in Threads, k \in Keys : TRemove(t, k)
    \/ \E t \in Threads : TClear(t)
    \/ \E t \in Threads : TStatsTime(t)
    \/ \E t \in Threads : TStatsIter(t)
    \/ \E t \in Threads : TStatsNext(t)
    \/ \E t \in Threads : TStatsLen1(t)
    \/ \E t \in Threads : TStatsLen2(t)
    \/ \E t \in Threads : TReturn(t)

SpecThreads == InitThreads /\ [][NextThreads]_vars

\* ------------------------------------------- concurrent requests, no lock
\* Two units of execution run do_GET on the one gist_cache.  The cache stores
\* a reference to the response dict, so a value in self.cache is the identity
\* of an object on the heap; the handler that built the dict, the cache, and a
\* handler that got it from the cache all hold the same object.  do_GET is cut
\* after each call it makes.

MaxObjs == 2

\* the locals of do_GET
Handling(k, label) == [Idle EXCEPT !.op = label, !.key = k]

\* do_GET, lines 148-156 and get lines 27-29: a bypass goes straight to the
\* upstream call; otherwise the membership test, the entry read and the call
\* of time.time()
RLookup(t, k, bypass_cache) ==
    /\ pc[t] = "idle"
    /\ IF bypass_cache \/ k \notin DOMAIN cache
       THEN Step(t, "req_fetch", Handling(k, "do_GET"), FALSE)
       ELSE Step(t, "req_cmp",
                 [Handling(k, "do_GET") EXCEPT !.value = cache[k].value,
                                               !.timestamp = cache[k].timestamp,
                                               !.time = now], FALSE)
    /\ UNCHANGED <<cache, ttl, heap, now, hist, log, lazy>>

\* get, lines 29-34, and do_GET line 158: a valid entry is handed to
\* send_cached_response; an expired one is deleted and the request goes on to
\* the upstream call.  The del raises KeyError when another unit already
\* removed the key; line 156 is outside the try block, so the handler ends
\* without a response.
RCompare(t) ==
    /\ pc[t] = "req_cmp"
    /\ LET l == loc[t]
       IN  IF l.time - l.timestamp < ttl
           THEN /\ Step(t, "req_mark", l, FALSE)
                /\ UNCHANGED <<cache, lazy>>
           ELSE IF l.key \in DOMAIN cache
                THEN /\ cache' = Del(cache, l.key)
                     /\ lazy' = [lazy EXCEPT ![l.key] = l.time]
                     /\ Step(t, "req_fetch", Handling(l.key, "do_GET"), TRUE)
                ELSE /\ Step(t, "done", Returned("do_GET", l.key, KeyError), FALSE)
                     /\ UNCHANGED <<cache, lazy>>
    /\ UNCHANGED <<ttl, heap, now, hist, log>>

\* send_cached_response, line 207: cached_data['cache']['hit'] = True, on the
\* object the cache handed out
RMark(t) ==
    /\ pc[t] = "req_mark"
    /\ heap' = [heap EXCEPT ![loc[t].value].hit = TRUE]
    /\ Step(t, "req_hit", loc[t], FALSE)
    /\ UNCHANGED <<cache, ttl, now, hist, log, lazy>>

\* send_cached_response, lines 209-213: status 200, X-Cache-Status HIT, and
\* json.dumps of the object as it is now
RHitBody(t) ==
    /\ pc[t] = "req_hit"
    /\ Step(t, "done",
            Returned("do_GET", loc[t].key,
                     Response(200, "HIT", heap[loc[t].value], 0, 0)), FALSE)
    /\ UNCHANGED <<cache, ttl, heap, now, hist, log, lazy>>

\* do_GET, lines 163-189: the upstream call; on success response_data is
\* built, a new dict with 'hit': False; a failure ends in the except clauses
RFetch(t, upstream) ==
    /\ pc[t] = "req_fetch"
    /\ IF upstream.kind = "ok"
       THEN /\ Len(heap) < MaxObjs
            /\ heap' = Append(heap, [data |-> upstream.data, hit |-> FALSE])
            /\ Step(t, "req_time",
                    [loc[t] EXCEPT !.value = Len(heap) + 1], FALSE)
       ELSE /\ heap' = heap
            /\ Step(t, "done",
                    Returned("do_GET", loc[t].key,
                             fetch_failed(cache, loc[t].key, upstream).result),
                    FALSE)
    /\ UNCHANGED <<cache, ttl, now, hist, log, lazy>>

\* do_GET line 192 and set, line 38: the call of time.time()
RSetTime(t) ==
    /\ pc[t] = "req_time"
    /\ Step(t, "req_store", [loc[t] EXCEPT !.time = now], FALSE)
    /\ UNCHANGED <<cache, ttl, heap, now, hist, log, lazy>>

\* set, line 38: the reference to response_data is stored under the key
RSetStore(t) ==
    /\ pc[t] = "req_store"
    /\ LET l == loc[t]
       IN  /\ cache' = set(cache, l.key, l.value, l.time).cache
           /\ log' = [log EXCEPT ![l.key] = [value |-> l.value, time |-> l.time]]
           /\ lazy' = [lazy EXCEPT ![l.key] = NoTime]
           /\ Step(t, "req_miss", l, l.key \notin DOMAIN cache)
    /\ UNCHANGED <<ttl, heap, now, hist>>

\* do_GET, lines 194-198: status 200, X-Cache-Status MISS, and json.dumps of
\* response_data as it is now
RMissBody(t) ==
    /\ pc[t] = "req_miss"
    /\ Step(t, "done",
            Returned("do_GET", loc[t].key,
                     Response(200, "MISS", heap[loc[t].value], 1, 1)), FALSE)
    /\ UNCHANGED <<cache, ttl, heap, now, hist, log, lazy>>

InitRequests == Init /\ ttl = DefaultTTL

NextRequests ==
    \/ Tick
    \/ \E t \in Threads, k \in Keys, bypass_cache \in BOOLEAN :
          RLookup(t, k, bypass_cache)
    \/ \E t \in Threads : RCompare(t)
    \/ \E t \in Threads : RMark(t)
    \/ \E t \in Threads : RHitBody(t)
    \/ \E t \in Threads, upstream \in Upstreams : RFetch(t, upstream)
    \/ \E t \in Threads : RSetTime(t)
    \/ \E t \in Threads : RSetStore(t)
    \/ \E t \in Threads : RMissBody(t)
    \/ \E t \in Threads : TClear(t)
    \/ \E t \in Threads : TReturn(t)

SpecRequests == InitRequests /\ [][NextRequests]_vars

\* ------------------------------------------------- history-based notions
\* the keys set and not removed, cleared or dropped by an expiring get since
Live == {k \in Keys : log[k] # None /\ lazy[k] = NoTime}
\* the age, at time t, of the value last set for k
AgeAt(k, t) == t - log[k].time
\* every key other than k holds what it held when the last operation started
OthersUntouched(k) ==
    \A j \in Keys \ {k} :
        /\ (j \in DOMAIN cache) = (j \in DOMAIN pre)
        /\ j \in DOMAIN pre => cache[j] = pre[j]

\* ------------------------------------------------------------------ claims

\* C1: get(k) returns a value only when an entry for k is stored and the time
\* since it was set is strictly less than ttl; at an age equal to ttl or
\* greater, get returns absent.
C1_GetNeverStale ==
    ret.op = "get" =>
        /\ ret.result # None =>
              /\ ret.key \in DOMAIN pre
              /\ log[ret.key] # None
              /\ AgeAt(ret.key, ret.time) < ttl
        /\ (log[ret.key] # None /\ AgeAt(ret.key, ret.time) >= ttl) =>
              ret.result = None

\* a get on a stored entry whose age is exactly the (positive) TTL
C1_Witness ==
    /\ ret.op = "get"
    /\ ttl > 0
    /\ ret.key \in DOMAIN pre
    /\ log[ret.key] # None
    /\ AgeAt(ret.key, ret.time) = ttl
    /\ ret.result = None

\* C2: set(k, v) followed by get(k), with no set, remove or clear on k in
\* between and less than ttl elapsed, returns exactly v, the value of the most
\* recent set on k.
C2_SetThenGet ==
    (ret.op = "get" /\ log[ret.key] # None /\ AgeAt(ret.key, ret.time) < ttl)
        => ret.result = log[ret.key].value

\* a get, some time after an overwriting set, that returns the latest value
C2_Witness ==
    /\ ret.op = "get"
    /\ log[ret.key] # None
    /\ AgeAt(ret.key, ret.time) > 0
    /\ AgeAt(ret.key, ret.time) < ttl
    /\ ret.result = log[ret.key].value
    /\ \E j \in DOMAIN cache : j # ret.key /\ cache[j].value # ret.result

\* C3: a get(k) later than inserted_at + ttl returns absent and removes the
\* entry, leaving all other entries in place; until the next set on k the key
\* is not stored, and stats() counts only the other entries.
C3_ExpiredGetRemoves ==
    /\ (ret.op = "get" /\ log[ret.key] # None
            /\ ret.time > log[ret.key].time + ttl) =>
          /\ ret.result = None
          /\ ret.key \notin DOMAIN cache
          /\ OthersUntouched(ret.key)
    /\ \A k \in Keys :
          (log[k] # None /\ lazy[k] # NoTime /\ lazy[k] > log[k].time + ttl) =>
              /\ k \notin DOMAIN cache
              /\ ret.op = "stats" =>
                    ret.result.total_entries = Cardinality(Live \ {k})

\* stats after an expiring get on one key while another entry is still stored
C3_Witness ==
    /\ ret.op = "stats"
    /\ ttl > 0
    /\ ret.result.total_entries = 1
    /\ \E k \in Keys :
          /\ log[k] # None
          /\ lazy[k] # NoTime
          /\ lazy[k] > log[k].time + ttl

\* C4: stats() leaves the stored entries unchanged; an entry that has expired
\* and has not been read, removed or cleared is still stored and is counted in
\* total_entries and expired_entries, never in valid_entries.
C4_StatsObserves ==
    ret.op = "stats" =>
        LET expired == {k \in Live : AgeAt(k, ret.time) >= ttl}
        IN  /\ cache = pre
            /\ expired \subseteq DOMAIN cache
            /\ ret.result.total_entries = Cardinality(Live)
            /\ ret.result.expired_entries = Cardinality(expired)
            /\ ret.result.valid_entries = Cardinality(Live \ expired)

\* stats taken while one entry is expired but unread and another is valid
C4_Witness ==
    /\ ret.op = "stats"
    /\ ret.result.expired_entries = 1
    /\ ret.result.valid_entries = 1
    /\ \E k \in DOMAIN cache : ret.time - cache[k].timestamp >= ttl

\* C6: the count reported by /cache/clear equals the number of entries that
\* clear removed, the cache is empty afterwards, and stats() with no set in
\* between reports total_entries = 0.
C6_ClearCount ==
    /\ ret.op = "cache_clear" =>
          /\ cache = EmptyCache
          /\ ret.result.entries_removed = len(pre)
    /\ (ret.op = "stats" /\ log = NoLog) => ret.result.total_entries = 0

\* a clear that removed two entries
C6_Witness ==
    /\ ret.op = "cache_clear"
    /\ len(pre) = 2
    /\ ret.result.entries_removed = 2
    /\ cache = EmptyCache

\* C7: remove(k) returns normally; on an absent key it leaves the cache
\* unchanged, on a stored key it removes exactly that entry and leaves every
\* other entry unchanged.
C7_Remove ==
    ret.op = "remove" =>
        /\ ret.result = None
        /\ ret.key \notin DOMAIN cache
        /\ OthersUntouched(ret.key)
        /\ ret.key \notin DOMAIN pre => cache = pre

\* remove of an absent key while another entry is stored
C7_Witness ==
    /\ ret.op = "remove"
    /\ ret.key \notin DOMAIN pre
    /\ pre # EmptyCache
    /\ cache = pre

\* C10: set(k, v) succeeds, stores v for k with the current time as its
\* timestamp (an overwrite restarts the validity window) and leaves the entry
\* of every other key unchanged.
C10_SetFrame ==
    ret.op = "set" =>
        /\ ret.result = None
        /\ ret.key \in DOMAIN cache
        /\ cache[ret.key] = [value |-> log[ret.key].value, timestamp |-> ret.time]
        /\ OthersUntouched(ret.key)

\* an overwrite of an older entry while the other key is stored
C10_Witness ==
    /\ ret.op = "set"
    /\ ret.key \in DOMAIN pre
    /\ pre[ret.key].timestamp < ret.time
    /\ cache[ret.key].timestamp = ret.time
    /\ len(cache) = 2

\* a unit whose call of op has ended, by a return or by an exception
Ended(t, op) == pc[t] = "done" /\ loc[t].op = op
Raises == {KeyError, RuntimeError}

\* C5: every result returned by stats(), also while other units run set, get,
\* remove or clear, has valid_entries + expired_entries = total_entries and
\* neither count negative.
C5_StatsConsistent ==
    \A t \in Threads :
        (Ended(t, "stats") /\ loc[t].result \notin Raises) =>
            /\ loc[t].result.valid_entries + loc[t].result.expired_entries
                  = loc[t].result.total_entries
            /\ loc[t].result.valid_entries >= 0
            /\ loc[t].result.expired_entries >= 0

\* C8: every cache operation ends with a normal result and never raises, in
\* every interleaving of get, set, remove, clear and stats of concurrent units.
C8_NeverRaises ==
    \A t \in Threads : pc[t] = "done" => loc[t].result \notin Raises

\* C9: whatever the interleaving of concurrent sets, a key holds at most one
\* entry, present exactly when a set stored it and nothing deleted it since,
\* and that entry is the value and the timestamp of one and the same set: the
\* one whose store came last.
C9_ConcurrentSet ==
    \A k \in Keys :
        /\ (k \in DOMAIN cache) = (k \in Live)
        /\ k \in DOMAIN cache =>
              cache[k] = [value |-> log[k].value, timestamp |-> log[k].time]

\* two overlapping sets on one key: the unit that read the clock first stored
\* last, and the entry is its value with its timestamp
C9_Witness ==
    \E t \in Threads, u \in Threads :
        /\ Ended(t, "set")
        /\ Ended(u, "set")
        /\ loc[t].key = loc[u].key
        /\ loc[t].value # loc[u].value
        /\ loc[t].time < loc[u].time
        /\ loc[t].key \in DOMAIN cache
        /\ cache[loc[t].key] = [value |-> loc[t].value, timestamp |-> loc[t].time]

\* C11: with a zero or negative ttl every get on a stored entry returns absent
\* and removes it, even right after the set; until it is read, removed or
\* cleared the entry stays stored, and stats() counts it as expired.
C11_NonPositiveTTL ==
    ttl <= 0 =>
        /\ ret.op = "get" => (ret.result = None /\ ret.key \notin DOMAIN cache)
        /\ ret.op = "set" => ret.key \in DOMAIN cache
        /\ Live \subseteq DOMAIN cache
        /\ ret.op = "stats" =>
              /\ ret.result.valid_entries = 0
              /\ ret.result.expired_entries = Cardinality(Live)
              /\ ret.result.total_entries = Cardinality(Live)

\* ttl = 0: a get at the very time of the set finds the entry and drops it
C11_Witness ==
    /\ ttl = 0
    /\ ret.op = "get"
    /\ ret.key \in DOMAIN pre
    /\ pre[ret.key].timestamp = ret.time
    /\ ret.result = None
    /\ ret.key \notin DOMAIN cache

\* C12: get(k) on a key with no stored entry (never set, or removed or cleared
\* since its last set) returns absent and leaves the cache unchanged.
C12_GetAbsent ==
    ret.op = "get" =>
        /\ log[ret.key] = None => ret.key \notin DOMAIN pre
        /\ ret.key \notin DOMAIN pre => (ret.result = None /\ cache = pre)

\* a get on a key removed after its set, while another entry is stored
C12_Witness ==
    /\ ret.op = "get"
    /\ log[ret.key] = None
    /\ ret.key \notin DOMAIN pre
    /\ pre # EmptyCache
    /\ ret.result = None
    /\ cache = pre

\* C13: the cache key is injective on (identity, page, per_page): equal
\* triples give the same key, different triples different keys, also for
\* identities that contain ':' or the words page and per_page.
C13_KeyInjective ==
    ret.op = "cache_key" => ((ret.result[1] = ret.result[2]) = (ret.a = ret.b))

\* two requests whose identities differ by a piece that looks like the key's
\* own page part, with the same page numbers
C13_Witness ==
    /\ ret.op = "cache_key"
    /\ ret.a[1] = ret.b[1] \o <<":", "p", "a", "g", "e", "1">>
    /\ ret.a[2] = ret.b[2]
    /\ ret.a[3] = ret.b[3]
    /\ ret.result[1] # ret.result[2]

\* the value of a parameter, when it is present and an integer
Given(params, name) == name \in DOMAIN params
IsInteger(s) ==
    \E i \in 0..1 :
        /\ Len(s) > i
        /\ i = 1 => s[1] = "-"
        /\ \A j \in (i + 1)..Len(s) : IsDigit(s[j])
Clamped(n) == IF n < 1 THEN 1 ELSE IF n > 100 THEN 100 ELSE n

\* C19: get_pagination_params returns (page, per_page) with both in 1..100:
\* integers are clamped, a missing page is 1 and a missing per_page 30, and
\* when either parameter is not an integer both are the defaults (1, 30).
C19_Pagination ==
    ret.op = "pagination" =>
        LET p == ret.params
            bad(name) == Given(p, name) /\ ~IsInteger(p[name])
        IN  /\ ret.result[1] \in 1..100
            /\ ret.result[2] \in 1..100
            /\ (bad("page") \/ bad("per_page")) => ret.result = <<1, 30>>
            /\ ~(bad("page") \/ bad("per_page")) =>
                  /\ ret.result[1] = IF Given(p, "page")
                                     THEN Clamped(int(p["page"]).value) ELSE 1
                  /\ ret.result[2] = IF Given(p, "per_page")
                                     THEN Clamped(int(p["per_page"]).value) ELSE 30

\* a valid page is discarded because per_page is not an integer
C19_Witness ==
    /\ ret.op = "pagination"
    /\ Given(ret.params, "page")
    /\ Given(ret.params, "per_page")
    /\ ret.params["page"] = <<"9">>
    /\ ~IsInteger(ret.params["per_page"])
    /\ ret.result = <<1, 30>>

\* the response dict do_GET builds from a successful upstream call
FreshResponse(upstream) == [data |-> upstream.data, hit |-> FALSE]
\* a request that got as far as the upstream call
Fetching == ret.op = "do_GET" /\ (ret.bypass \/ ~ret.fresh)

\* C14: a request without bypass whose lookup finds a valid entry answers from
\* the stored value and makes no upstream call; one whose lookup misses makes
\* exactly one upstream call and, when it succeeds, stores the result under
\* its key before answering, so that the next request for the key within the
\* TTL is a hit.
C14_ControlFlow ==
    (ret.op = "do_GET" /\ ~ret.bypass) =>
        /\ ret.fresh =>
              /\ ret.key \in DOMAIN pre
              /\ ret.result.status = 200
              /\ ret.result.x_cache = "HIT"
              /\ ret.result.body.data = pre[ret.key].value.data
              /\ ret.result.fetches = 0
              /\ ret.result.sets = 0
              /\ DOMAIN cache = DOMAIN pre
              /\ cache[ret.key].timestamp = pre[ret.key].timestamp
        /\ ~ret.fresh =>
              /\ ret.result.fetches = 1
              /\ ret.result.x_cache # "HIT"
              /\ ret.upstream.kind = "ok" =>
                    /\ ret.result.status = 200
                    /\ ret.result.x_cache = "MISS"
                    /\ ret.result.body = FreshResponse(ret.upstream)
                    /\ ret.key \in DOMAIN cache
                    /\ cache[ret.key] = [value |-> FreshResponse(ret.upstream),
                                         timestamp |-> ret.end]

\* a hit, later in time, on the entry an earlier miss stored
C14_Witness ==
    /\ ret.op = "do_GET"
    /\ ~ret.bypass
    /\ ret.fresh
    /\ ret.result.x_cache = "HIT"
    /\ ret.time > pre[ret.key].timestamp
    /\ ret.result.fetches = 0

\* C16: once a request for k has been served from the cache, the value stored
\* for k has hit = true, and keeps it until the entry is overwritten by a set,
\* cleared, or removed on expiry.
C16_HitPersists ==
    \A k \in Keys :
        (log[k] # None /\ lazy[k] = NoTime /\ log[k].served) =>
            /\ k \in DOMAIN cache
            /\ cache[k].value.hit = TRUE
            /\ cache[k].value.data = log[k].value.data

\* a served entry, still marked when it has expired and stats looks at it
C16_Witness ==
    /\ ret.op = "stats"
    /\ \E k \in DOMAIN cache :
          /\ log[k] # None
          /\ log[k].served
          /\ cache[k].value.hit
          /\ ret.time - cache[k].timestamp >= ttl

\* C17: when the upstream call of a request fails, the handler makes no
\* further upstream call and stores nothing: the cache holds what it held
\* right after the lookup, and the response is 404, the upstream status, or
\* 500.
C17_FailedFetch ==
    (Fetching /\ ret.upstream.kind # "ok") =>
        /\ ret.result.fetches = 1
        /\ ret.result.sets = 0
        /\ ret.result.x_cache = "-"
        /\ ret.result.status =
              (IF ret.upstream.kind = "HTTPError" THEN ret.upstream.code ELSE 500)
        /\ OthersUntouched(ret.key)
        /\ IF ret.bypass
           THEN cache = pre
           ELSE ret.key \notin DOMAIN cache

\* an upstream 404 for a key whose entry had expired, another entry stored
C17_Witness ==
    /\ Fetching
    /\ ~ret.bypass
    /\ ret.upstream = HTTPError(404)
    /\ ret.result.status = 404
    /\ ret.key \in DOMAIN pre
    /\ ret.key \notin DOMAIN cache
    /\ cache # EmptyCache

\* C18: a request with no_cache=true does not consult the cache (no lazy
\* removal, no hit mark), always makes the upstream call, and on success
\* overwrites the entry of its key with the fresh response; the response is a
\* MISS even when a valid entry was stored.
C18_Bypass ==
    (ret.op = "do_GET" /\ ret.bypass) =>
        /\ ret.result.fetches = 1
        /\ ret.result.x_cache # "HIT"
        /\ OthersUntouched(ret.key)
        /\ ret.upstream.kind # "ok" => cache = pre
        /\ ret.upstream.kind = "ok" =>
              /\ ret.result.status = 200
              /\ ret.result.x_cache = "MISS"
              /\ ret.result.body = FreshResponse(ret.upstream)
              /\ ret.key \in DOMAIN cache
              /\ cache[ret.key] = [value |-> FreshResponse(ret.upstream),
                                   timestamp |-> ret.end]

\* a bypass over a valid entry that carried the hit mark
C18_Witness ==
    /\ ret.op = "do_GET"
    /\ ret.bypass
    /\ ret.fresh
    /\ ret.key \in DOMAIN pre
    /\ pre[ret.key].value.hit
    /\ ret.end > pre[ret.key].timestamp
    /\ ret.result.x_cache = "MISS"
    /\ cache[ret.key].value.hit = FALSE
    /\ cache[ret.key].timestamp = ret.end

\* C15: a response with X-Cache-Status MISS has cache.hit = false in its body
\* and a response with X-Cache-Status HIT has cache.hit = true, also when
\* another request for the same key is handled at the same time.
C15_StatusConsistent ==
    \A t \in Threads :
        (/\ Ended(t, "do_GET")
         /\ loc[t].result \notin Raises
         /\ loc[t].result.status = 200) =>
            /\ loc[t].result.x_cache = "MISS" => loc[t].result.body.hit = FALSE
            /\ loc[t].result.x_cache = "HIT" => loc[t].result.body.hit = TRUE

\* C20: no request handler changes ttl: it is the 300 given at construction in
\* every state, stats() reports it, and stats() on an empty cache returns
\* total 0, valid 0, expired 0, ttl_seconds 300.
C20_TTLFixed ==
    /\ ttl = DefaultTTL
    /\ ret.op = "stats" =>
          /\ ret.result.ttl_seconds = DefaultTTL
          /\ pre = EmptyCache =>
                ret.result = [total_entries |-> 0, valid_entries |-> 0,
                              expired_entries |-> 0, ttl_seconds |-> 300]

\* stats on a cache emptied by a clear, some time after start
C20_Witness ==
    /\ ret.op = "stats"
    /\ pre = EmptyCache
    /\ ret.time > 0
    /\ log = NoLog
    /\ ret.result.ttl_seconds = 300

====
